---- MODULE Spec2Model ----
(***************************************************************************)
(* Model of update.py: the Dockerfile generator of docker-crate.           *)
(*                                                                         *)
(* Strings are sequences of one-character strings, so that Version.parse,  *)
(* int(), str.split and str() are computed character by character.         *)
(* Python values are tagged records: None, str, Version, raised exception. *)
(***************************************************************************)
EXTENDS Integers, Sequences, FiniteSets, TLC

VARIABLES
    pc,              \* position in main() (or in the Version driver)
    argv,            \* raw command-line values, before argparse's type=
    fs,              \* which template files exist: [script |-> set, cwd |-> set]
    args,            \* argparse namespace after parse_args()
    cratedb_version, \* main's local, line 86
    jdk_version,     \* main's local, line 88
    jdk_url,         \* main's local, line 89
    jdk_sha256,      \* main's local, line 89
    template,        \* main's local, line 90 (the template name)
    loaded,          \* name of the template object returned by get_template
    crate_binding,   \* CRATE_VERSION keyword argument, line 95
    crash_binding,   \* CRASH_VERSION keyword argument, line 96
    stdout,          \* what print() wrote
    error,           \* the exception that ended the run
    requests,        \* every urlopen() call, in order: [method, url, outcome]
    probes,          \* every url_exists() call, in order: [url, outcome, result]
    pstr,            \* Version driver: input string
    pver,            \* Version driver: input Version
    pres,            \* Version driver: result of Version.parse
    pout             \* Version driver: result of str()

vars == <<pc, argv, fs, args, cratedb_version, jdk_version, jdk_url, jdk_sha256,
          template, loaded, crate_binding, crash_binding, stdout, error,
          requests, probes, pstr, pver, pres, pout>>

mainVars == <<argv, fs, args, cratedb_version, jdk_version, jdk_url, jdk_sha256,
              template, loaded, crate_binding, crash_binding, stdout, error,
              requests, probes>>

driverVars == <<pstr, pver, pres, pout>>

-----------------------------------------------------------------------------
(* Bounds *)

\* largest number of '.'-separated pieces of a generated input string
MaxParts == 4

\* largest component of a generated Version
MaxComponent == 11

-----------------------------------------------------------------------------
(* Python values *)

None == [tag |-> "None"]

PyStr(s) == [tag |-> "str", chars |-> s]

Raise(type, msg) == [tag |-> "raise", type |-> type, msg |-> msg]

Return(v) == [tag |-> "return", val |-> v]

\* class Version(NamedTuple)
Version(a, b, c) == [tag |-> "Version", major |-> a, minor |-> b, hotfix |-> c]

\* a NamedTuple is a tuple: it hashes and compares as its field tuple
AsTuple(v) == <<v.major, v.minor, v.hotfix>>

\* Truthy with a Version treated like a number: all zero is false
Truthy_zero_is_false(x) ==
    CASE x.tag = "None"    -> FALSE
      [] x.tag = "str"     -> Len(x.chars) > 0
      [] x.tag = "Version" -> AsTuple(x) # <<0, 0, 0>>

\* bool(x): None is false, a str is false iff empty, a tuple is false iff
\* it has no elements (a Version always has three)
Truthy(x) ==
    CASE x.tag = "None"    -> FALSE
      [] x.tag = "str"     -> Len(x.chars) > 0
      [] x.tag = "Version" -> Len(AsTuple(x)) > 0

\* a or b
PyOr(a, b) == IF Truthy(a) THEN a ELSE b

-----------------------------------------------------------------------------
(* Characters and integers *)

Digits == {"0", "1", "2", "3", "4", "5", "6", "7", "8", "9"}

DigitVal(c) ==
    CASE c = "0" -> 0 [] c = "1" -> 1 [] c = "2" -> 2 [] c = "3" -> 3
      [] c = "4" -> 4 [] c = "5" -> 5 [] c = "6" -> 6 [] c = "7" -> 7
      [] c = "8" -> 8 [] c = "9" -> 9

DigitChar(d) ==
    CASE d = 0 -> "0" [] d = 1 -> "1" [] d = 2 -> "2" [] d = 3 -> "3"
      [] d = 4 -> "4" [] d = 5 -> "5" [] d = 6 -> "6" [] d = 7 -> "7"
      [] d = 8 -> "8" [] d = 9 -> "9"

RECURSIVE LStrip(_)
LStrip(s) == IF s # <<>> /\ Head(s) = " " THEN LStrip(Tail(s)) ELSE s

RECURSIVE RStrip(_)
RStrip(s) ==
    IF s # <<>> /\ s[Len(s)] = " " THEN RStrip(SubSeq(s, 1, Len(s) - 1)) ELSE s

Strip(s) == RStrip(LStrip(s))

\* the text of an int() argument after the surrounding whitespace and one
\* optional sign are removed
Unsigned(s) ==
    LET t == Strip(s)
    IN  IF t # <<>> /\ Head(t) \in {"+", "-"} THEN Tail(t) ELSE t

IsNegative(s) ==
    LET t == Strip(s) IN t # <<>> /\ Head(t) = "-"

\* digits, with single underscores allowed between digits
DigitBody(b) ==
    /\ b # <<>>
    /\ b[1] \in Digits
    /\ b[Len(b)] \in Digits
    /\ \A i \in 1..Len(b) : b[i] \in Digits \cup {"_"}
    /\ \A i \in 1..(Len(b) - 1) : ~(b[i] = "_" /\ b[i + 1] = "_")

RECURSIVE DecimalValue(_)
DecimalValue(b) ==
    IF b = <<>> THEN 0
    ELSE LET last == b[Len(b)]
             rest == SubSeq(b, 1, Len(b) - 1)
         IN  IF last = "_" THEN DecimalValue(rest)
             ELSE 10 * DecimalValue(rest) + DigitVal(last)

\* int(s) succeeds
IntOk(s) == DigitBody(Unsigned(s))

\* int(s), when it succeeds
IntVal(s) ==
    IF IsNegative(s) THEN 0 - DecimalValue(Unsigned(s))
    ELSE DecimalValue(Unsigned(s))

RECURSIVE NatToStr(_)
NatToStr(n) ==
    IF n < 10 THEN <<DigitChar(n)>>
    ELSE NatToStr(n \div 10) \o <<DigitChar(n % 10)>>

\* IntToStr that loses the sign
IntToStr_unsigned(n) == IF n < 0 THEN NatToStr(0 - n) ELSE NatToStr(n)

\* str(n) / f'{n}' of an int
IntToStr(n) == IF n < 0 THEN <<"-">> \o NatToStr(0 - n) ELSE NatToStr(n)

-----------------------------------------------------------------------------
(* str.split and str.join *)

\* index of the first sep in s, 0 when there is none
RECURSIVE FindFrom(_, _, _)
FindFrom(s, sep, i) ==
    IF i > Len(s) THEN 0
    ELSE IF s[i] = sep THEN i
    ELSE FindFrom(s, sep, i + 1)

\* s.split(sep, maxsplit=k)
RECURSIVE Split(_, _, _)
Split(s, sep, k) ==
    LET i == FindFrom(s, sep, 1)
    IN  IF k = 0 \/ i = 0 THEN <<s>>
        ELSE <<SubSeq(s, 1, i - 1)>> \o Split(SubSeq(s, i + 1, Len(s)), sep, k - 1)

\* sep.join(parts)
RECURSIVE Join(_, _)
Join(parts, sep) ==
    IF Len(parts) = 0 THEN <<>>
    ELSE IF Len(parts) = 1 THEN parts[1]
    ELSE parts[1] \o <<sep>> \o Join(Tail(parts), sep)

-----------------------------------------------------------------------------
(* class Version *)

\* the error of Version(*map(int, parts)): map is lazy, so the components are
\* converted left to right while the arguments are collected (ValueError at
\* the first bad one) and only then is the number of arguments checked
\* (TypeError)
MkVersion(parts) ==
    IF \E i \in 1..Len(parts) : ~IntOk(parts[i])
    THEN Raise("ValueError", <<"invalid literal for int() with base 10">>)
    ELSE IF Len(parts) # 3
    THEN Raise("TypeError", <<"Version.__new__() missing required positional argument">>)
    ELSE Version(IntVal(parts[1]), IntVal(parts[2]), IntVal(parts[3]))

\* Version.parse(s)
Parse(s) == MkVersion(Split(s, ".", 2))

\* Version.__str__
VersionStr(v) ==
    IntToStr(v.major) \o <<".">> \o IntToStr(v.minor) \o <<".">> \o IntToStr(v.hotfix)

\* str(x) of an optional Version, as the f-strings and the template see it
Show(x) == IF x.tag = "Version" THEN VersionStr(x) ELSE <<"None">>

-----------------------------------------------------------------------------
(* The static table and the fixed URLs *)

Jdk12Url == <<"https://download.java.net/java/GA/jdk12.0.1/69cfe15208a647278a19ef0990eea691/12/GPL/openjdk-12.0.1_linux-x64_bin.tar.gz">>

Jdk11Url == <<"https://download.java.net/java/GA/jdk11/13/GPL/openjdk-11.0.1_linux-x64_bin.tar.gz">>

JDK_URLS == (<<12, 0, 1>> :> Jdk12Url) @@ (<<11, 0, 1>> :> Jdk11Url)

VersionsJsonUrl == <<"https://crate.io/versions.json">>

CrashUrl(v) == <<"https://cdn.crate.io/downloads/releases/crash_standalone_">> \o Show(v)

CratedbUrl(v) ==
    <<"https://cdn.crate.io/downloads/releases/crate-">> \o Show(v) \o <<".tar.gz">>

ChecksumUrl(url) == url \o <<".sha256">>

GenericTemplate == <<"Dockerfile.j2">>

VersionedTemplate(v) ==
    <<"Dockerfile_">> \o IntToStr(v.major) \o <<".">> \o IntToStr(v.minor) \o <<".j2">>

-----------------------------------------------------------------------------
(* The environment: what urlopen can do *)

\* outcomes of urlopen(Request(url, method='HEAD')): a response, an
\* HTTPError (a URLError subclass, raised for an error status), a URLError
\* (the request could not be sent), or an exception of the HTTP client that
\* urllib does not wrap (raised while the response is read)
HeadOutcomes == {"200", "HTTPError", "URLError", "timeout", "RemoteDisconnected"}

\* the exceptions among them that are URLError or a subclass of it
URLErrors == {"HTTPError", "URLError"}

\* bodies a checksum file can have
ChecksumBodies == {<<"sha-a">>, <<"sha-b">>}

\* outcomes of urlopen(url + '.sha256') and the read and decode of its body
ChecksumOutcomes ==
    {[tag |-> "body", body |-> b] : b \in ChecksumBodies}
        \cup {[tag |-> "fail", type |-> "URLError"]}

Chars(str) ==
    CASE str = "0.24.2" -> <<"0", ".", "2", "4", ".", "2">>
      [] str = "0.0.0"  -> <<"0", ".", "0", ".", "0">>
      [] str = "0.24"   -> <<"0", ".", "2", "4">>
      [] str = "4.1.0"  -> <<"4", ".", "1", ".", "0">>
      [] str = "4.1.7"  -> <<"4", ".", "1", ".", "7">>
      [] str = "3.9.9"  -> <<"3", ".", "9", ".", "9">>
      [] str = "5.0.0"  -> <<"5", ".", "0", ".", "0">>
      [] str = "4.x.0"  -> <<"4", ".", "x", ".", "0">>
      [] str = "12.0.1" -> <<"1", "2", ".", "0", ".", "1">>
      [] str = "11.0.1" -> <<"1", "1", ".", "0", ".", "1">>
      [] str = "13.0.0" -> <<"1", "3", ".", "0", ".", "0">>
      [] str = "8"      -> <<"8">>
      [] str = ""       -> <<>>

\* outcomes of latest_crash's urlopen and json.load and d['crash']
MetadataOutcomes ==
    {[tag |-> "fail", type |-> "URLError"],
     [tag |-> "fail", type |-> "JSONDecodeError"],
     [tag |-> "fail", type |-> "KeyError"],
     [tag |-> "crash", text |-> Chars("0.24.2")],
     [tag |-> "crash", text |-> Chars("0.0.0")],
     [tag |-> "crash", text |-> Chars("0.24")]}

-----------------------------------------------------------------------------
(* The functions of update.py, as functions of their arguments and of the  *)
(* outcome of the requests they issue                                      *)

\* url_exists(url), given what urlopen did
url_exists(outcome) ==
    IF outcome = "200" THEN Return(TRUE)
    ELSE IF outcome \in URLErrors THEN Return(FALSE)
    ELSE Raise(outcome, <<>>)

\* latest_crash(), given what the metadata request did
latest_crash(meta) ==
    IF meta.tag = "fail" THEN Raise(meta.type, <<>>)
    ELSE LET v == Parse(meta.text)
         IN  IF v.tag = "raise" THEN v ELSE Return(v)

\* ensure_existing_crash that returns the version whatever the probe said
ensure_existing_crash_unchecked(crash_version, probe, meta) ==
    IF ~Truthy(crash_version) THEN latest_crash(meta)
    ELSE IF probe.tag = "raise" THEN probe
    ELSE Return(crash_version)

\* ensure_existing_crash, given what url_exists returned or raised and what
\* the metadata request did (only the request of the branch taken is issued)
ensure_existing_crash(crash_version, probe, meta) ==
    IF ~Truthy(crash_version) THEN latest_crash(meta)
    ELSE IF probe.tag = "raise" THEN probe
    ELSE IF probe.val THEN Return(crash_version)
    ELSE Raise("ValueError", <<"No release found for crash ">> \o Show(crash_version))

\* ensure_existing_cratedb that returns the version whatever the probe said
ensure_existing_cratedb_unchecked(version, probe) ==
    IF probe.tag = "raise" THEN probe ELSE Return(version)

\* ensure_existing_cratedb, given what url_exists returned or raised
ensure_existing_cratedb(version, probe) ==
    IF probe.tag = "raise" THEN probe
    ELSE IF probe.val THEN Return(version)
    ELSE Raise("ValueError", <<"No release found for CrateDB ">> \o Show(version))

\* jdk_version not in JDK_URLS
JdkKnown(version) == AsTuple(version) \in DOMAIN JDK_URLS

\* jdk_url_and_sha that falls back to the 12.0.1 entry for an unknown version
jdk_url_and_sha_fallback(version, fetch) ==
    LET url == IF JdkKnown(version) THEN JDK_URLS[AsTuple(version)] ELSE Jdk12Url
    IN  IF fetch.tag = "fail" THEN Raise(fetch.type, <<>>)
        ELSE Return([url |-> url, sha256 |-> fetch.body])

\* jdk_url_and_sha, given what the checksum request did (the request is
\* issued only when the version is in the table)
jdk_url_and_sha(version, fetch) ==
    IF ~JdkKnown(version)
    THEN Raise("ValueError", <<"No URL for JDK version ">> \o Show(version) \o <<" found.">>)
    ELSE IF fetch.tag = "fail" THEN Raise(fetch.type, <<>>)
    ELSE Return([url |-> JDK_URLS[AsTuple(version)], sha256 |-> fetch.body])

\* the default with the comparison off by one
jdk_version_default_above_4(cratedb) ==
    IF cratedb.major > 4 THEN Version(12, 0, 1) ELSE Version(11, 0, 1)

\* line 87
jdk_version_default(cratedb) ==
    IF cratedb.major >= 4 THEN Version(12, 0, 1) ELSE Version(11, 0, 1)

\* find_template_for_version: os.path.exists resolves the relative name
\* against the current working directory
find_template_for_version(cratedb, cwdFiles) ==
    IF VersionedTemplate(cratedb) \in cwdFiles
    THEN VersionedTemplate(cratedb)
    ELSE GenericTemplate

\* line 90
SelectTemplate(templateArg, cratedb, cwdFiles) ==
    IF Truthy(templateArg) THEN templateArg.chars
    ELSE find_template_for_version(cratedb, cwdFiles)

\* argparse's type= conversion of one optional argument
ArgValue(raw) == IF raw.tag = "None" THEN None ELSE Parse(raw.chars)

-----------------------------------------------------------------------------
(* The run of main() *)

CustomTemplate == <<"custom.j2">>

CratedbArgs == {Chars("4.1.0"), Chars("4.1.7"), Chars("3.9.9"), Chars("4.x.0"), Chars("8")}

CrashArgs == {Chars("0.24.2"), Chars("0.0.0"), Chars("0.24")}

JdkArgs == {Chars("12.0.1"), Chars("11.0.1"), Chars("13.0.0"), Chars("0.0.0")}

TemplateArgs == {Chars(""), CustomTemplate}

Optional(S) == {None} \cup {PyStr(s) : s \in S}

\* contents of the script's directory, and of the working directory when
\* the script is started from elsewhere
ScriptDirs ==
    {{},
     {GenericTemplate},
     {GenericTemplate, VersionedTemplate(Version(4, 1, 0))},
     {GenericTemplate, VersionedTemplate(Version(4, 1, 0)), CustomTemplate}}

OtherDirs == {{}, {VersionedTemplate(Version(4, 1, 0))}}

FileSystems ==
    {[script |-> s, cwd |-> s] : s \in ScriptDirs}
        \cup {[script |-> s, cwd |-> c] : s \in ScriptDirs, c \in OtherDirs}

DriverIdle ==
    /\ pstr = <<>>
    /\ pver = None
    /\ pres = None
    /\ pout = <<>>

Init ==
    /\ pc = "parse_args"
    /\ argv \in [cratedb  : {PyStr(s) : s \in CratedbArgs},
                 crash    : Optional(CrashArgs),
                 jdk      : Optional(JdkArgs),
                 template : Optional(TemplateArgs)]
    /\ fs \in FileSystems
    /\ args = None
    /\ cratedb_version = None
    /\ jdk_version = None
    /\ jdk_url = None
    /\ jdk_sha256 = None
    /\ template = None
    /\ loaded = None
    /\ crate_binding = None
    /\ crash_binding = None
    /\ stdout = None
    /\ error = None
    /\ requests = <<>>
    /\ probes = <<>>
    /\ DriverIdle

Head_(url, outcome) == [method |-> "HEAD", url |-> url, outcome |-> outcome]

Get_(url, outcome) == [method |-> "GET", url |-> url, outcome |-> outcome]

\* one call of url_exists: what urlopen did and what the caller got
Probe_(url, outcome) == [url |-> url, outcome |-> outcome, result |-> url_exists(outcome)]

\* an uncaught exception (or argparse's exit) ends the run
Fail(exc) ==
    /\ pc' = "error"
    /\ error' = exc

\* lines 79-84: parse_args() converts each version argument with
\* Version.parse and exits with an error message when a conversion raises
ParseArgs ==
    /\ pc = "parse_args"
    /\ LET c == ArgValue(argv.cratedb)
           s == ArgValue(argv.crash)
           j == ArgValue(argv.jdk)
       IN  IF \E x \in {c, s, j} : x.tag = "raise"
           THEN /\ Fail(Raise("SystemExit", <<"argument: invalid parse value">>))
                /\ UNCHANGED args
           ELSE /\ args' = [tag |-> "Namespace", cratedb_version |-> c,
                            crash_version |-> s, jdk_version |-> j,
                            template |-> argv.template]
                /\ pc' = "line86"
                /\ UNCHANGED error
    /\ UNCHANGED <<argv, fs, cratedb_version, jdk_version, jdk_url, jdk_sha256,
                   template, loaded, crate_binding, crash_binding, stdout,
                   requests, probes>>
    /\ UNCHANGED driverVars

\* line 86: cratedb_version = ensure_existing_cratedb(args.cratedb_version)
Line86 ==
    /\ pc = "line86"
    /\ \E o \in HeadOutcomes :
         LET url == CratedbUrl(args.cratedb_version)
             r   == ensure_existing_cratedb(args.cratedb_version, url_exists(o))
         IN  /\ requests' = Append(requests, Head_(url, o))
             /\ probes' = Append(probes, Probe_(url, o))
             /\ IF r.tag = "raise"
                THEN Fail(r) /\ UNCHANGED cratedb_version
                ELSE /\ cratedb_version' = r.val
                     /\ pc' = "line87"
                     /\ UNCHANGED error
    /\ UNCHANGED <<argv, fs, args, jdk_version, jdk_url, jdk_sha256, template,
                   loaded, crate_binding, crash_binding, stdout>>
    /\ UNCHANGED driverVars

\* lines 87-88: jdk_version = args.jdk_version or jdk_version_default
Line87 ==
    /\ pc = "line87"
    /\ jdk_version' = PyOr(args.jdk_version, jdk_version_default(cratedb_version))
    /\ pc' = "line89"
    /\ UNCHANGED <<argv, fs, args, cratedb_version, jdk_url, jdk_sha256, template,
                   loaded, crate_binding, crash_binding, stdout, error,
                   requests, probes>>
    /\ UNCHANGED driverVars

\* line 89: jdk_url, jdk_sha256 = jdk_url_and_sha(jdk_version)
Line89 ==
    /\ pc = "line89"
    /\ \E f \in ChecksumOutcomes :
         LET r == jdk_url_and_sha(jdk_version, f)
         IN  /\ requests' =
                  IF JdkKnown(jdk_version)
                  THEN Append(requests,
                              Get_(ChecksumUrl(JDK_URLS[AsTuple(jdk_version)]), f))
                  ELSE requests
             /\ IF r.tag = "raise"
                THEN Fail(r) /\ UNCHANGED <<jdk_url, jdk_sha256>>
                ELSE /\ jdk_url' = PyStr(r.val.url)
                     /\ jdk_sha256' = PyStr(r.val.sha256)
                     /\ pc' = "line90"
                     /\ UNCHANGED error
    /\ UNCHANGED <<argv, fs, args, cratedb_version, jdk_version, template, loaded,
                   crate_binding, crash_binding, stdout, probes>>
    /\ UNCHANGED driverVars

\* line 90: template = args.template or find_template_for_version(...)
Line90 ==
    /\ pc = "line90"
    /\ template' = PyStr(SelectTemplate(args.template, cratedb_version, fs.cwd))
    /\ pc' = "line92"
    /\ UNCHANGED <<argv, fs, args, cratedb_version, jdk_version, jdk_url,
                   jdk_sha256, loaded, crate_binding, crash_binding, stdout,
                   error, requests, probes>>
    /\ UNCHANGED driverVars

\* lines 92-93: the loader looks the name up in os.path.dirname(__file__)
Line92 ==
    /\ pc = "line92"
    /\ IF template.chars \in fs.script
       THEN /\ loaded' = template
            /\ pc' = "line95"
            /\ UNCHANGED error
       ELSE /\ Fail(Raise("TemplateNotFound", template.chars))
            /\ UNCHANGED loaded
    /\ UNCHANGED <<argv, fs, args, cratedb_version, jdk_version, jdk_url,
                   jdk_sha256, template, crate_binding, crash_binding, stdout,
                   requests, probes>>
    /\ UNCHANGED driverVars

\* line 95: CRATE_VERSION=ensure_existing_cratedb(args.cratedb_version),
\* evaluated before render is called
Line95 ==
    /\ pc = "line95"
    /\ \E o \in HeadOutcomes :
         LET url == CratedbUrl(args.cratedb_version)
             r   == ensure_existing_cratedb(args.cratedb_version, url_exists(o))
         IN  /\ requests' = Append(requests, Head_(url, o))
             /\ probes' = Append(probes, Probe_(url, o))
             /\ IF r.tag = "raise"
                THEN Fail(r) /\ UNCHANGED crate_binding
                ELSE /\ crate_binding' = r.val
                     /\ pc' = "line96"
                     /\ UNCHANGED error
    /\ UNCHANGED <<argv, fs, args, cratedb_version, jdk_version, jdk_url,
                   jdk_sha256, template, loaded, crash_binding, stdout>>
    /\ UNCHANGED driverVars

\* line 96: CRASH_VERSION=ensure_existing_crash(args.crash_version)
Line96 ==
    /\ pc = "line96"
    /\ \E o \in HeadOutcomes, m \in MetadataOutcomes :
         LET given == Truthy(args.crash_version)
             url   == CrashUrl(args.crash_version)
             r     == ensure_existing_crash(args.crash_version, url_exists(o), m)
         IN  /\ requests' =
                  IF given THEN Append(requests, Head_(url, o))
                  ELSE Append(requests, Get_(VersionsJsonUrl, m))
             /\ probes' =
                  IF given
                  THEN Append(probes, Probe_(url, o))
                  ELSE probes
             /\ IF r.tag = "raise"
                THEN Fail(r) /\ UNCHANGED crash_binding
                ELSE /\ crash_binding' = r.val
                     /\ pc' = "line94"
                     /\ UNCHANGED error
    /\ UNCHANGED <<argv, fs, args, cratedb_version, jdk_version, jdk_url,
                   jdk_sha256, template, loaded, crate_binding, stdout>>
    /\ UNCHANGED driverVars

\* lines 94-101: print(template.render(...)); the text is identified by
\* the template it comes from and the values bound into it (the timestamp,
\* a reading of the clock, is left out)
Line94 ==
    /\ pc = "line94"
    /\ stdout' = [tag |-> "text",
                  template      |-> loaded.chars,
                  CRATE_VERSION |-> Show(crate_binding),
                  CRASH_VERSION |-> Show(crash_binding),
                  JDK_VERSION   |-> VersionStr(jdk_version),
                  JDK_URL       |-> jdk_url.chars,
                  JDK_SHA256    |-> jdk_sha256.chars]
    /\ pc' = "done"
    /\ UNCHANGED <<argv, fs, args, cratedb_version, jdk_version, jdk_url,
                   jdk_sha256, template, loaded, crate_binding, crash_binding,
                   error, requests, probes>>
    /\ UNCHANGED driverVars

Next ==
    \/ ParseArgs
    \/ Line86
    \/ Line87
    \/ Line89
    \/ Line90
    \/ Line92
    \/ Line95
    \/ Line96
    \/ Line94

Spec == Init /\ [][Next]_vars

-----------------------------------------------------------------------------
(* Version.parse and str() on their own: every string made of up to        *)
(* MaxParts pieces joined by '.', and every Version with components up to  *)
(* MaxComponent                                                            *)

\* the pieces input strings are made of: digits, leading zeros, signs,
\* surrounding blanks, underscores, letters, nothing
Pieces ==
    {<<>>, <<"0">>, <<"1">>, <<"1", "0">>, <<"0", "1">>, <<"-", "1">>,
     <<"-", "0">>, <<"+", "1">>, <<" ", "1">>, <<"1", "_", "0">>, <<"x">>}

PieceSeqs == UNION {[1..n -> Pieces] : n \in 1..MaxParts}

InputStrings == {Join(ps, ".") : ps \in PieceSeqs}

InputVersions ==
    {Version(a, b, c) : a \in 0..MaxComponent, b \in 0..MaxComponent, c \in 0..MaxComponent}

MainIdle ==
    /\ argv = None
    /\ fs = None
    /\ args = None
    /\ cratedb_version = None
    /\ jdk_version = None
    /\ jdk_url = None
    /\ jdk_sha256 = None
    /\ template = None
    /\ loaded = None
    /\ crate_binding = None
    /\ crash_binding = None
    /\ stdout = None
    /\ error = None
    /\ requests = <<>>
    /\ probes = <<>>

InitVersion ==
    /\ MainIdle
    /\ pres = None
    /\ \/ /\ pc = "parse"
          /\ pstr \in InputStrings
          /\ pver = None
          /\ pout = <<>>
       \/ /\ pc = "str"
          /\ pver \in InputVersions
          /\ pstr = <<>>
          /\ pout = <<>>

\* v = Version.parse(s)
ParseInput ==
    /\ pc = "parse"
    /\ pres' = Parse(pstr)
    /\ pc' = IF pres'.tag = "raise" THEN "parse_failed" ELSE "parsed"
    /\ UNCHANGED <<pstr, pver, pout>>
    /\ UNCHANGED mainVars

\* str(v) of the Version just parsed
StrOfParsed ==
    /\ pc = "parsed"
    /\ pout' = VersionStr(pres)
    /\ pc' = "parsed_and_shown"
    /\ UNCHANGED <<pstr, pver, pres>>
    /\ UNCHANGED mainVars

\* s = str(v)
StrInput ==
    /\ pc = "str"
    /\ pout' = VersionStr(pver)
    /\ pc' = "shown"
    /\ UNCHANGED <<pstr, pver, pres>>
    /\ UNCHANGED mainVars

\* Version.parse(s) of the string just produced
ParseOfShown ==
    /\ pc = "shown"
    /\ pres' = Parse(pout)
    /\ pc' = "shown_and_parsed"
    /\ UNCHANGED <<pstr, pver, pout>>
    /\ UNCHANGED mainVars

NextVersion ==
    \/ ParseInput
    \/ StrOfParsed
    \/ StrInput
    \/ ParseOfShown

SpecVersion == InitVersion /\ [][NextVersion]_vars

-----------------------------------------------------------------------------
(* Claims about main()                                                     *)

Parsed == args.tag = "Namespace"

Jdk1201 == Version(12, 0, 1)

Jdk1101 == Version(11, 0, 1)

\* line 89 has been executed
JdkResolved == jdk_version # None /\ pc # "line89"

IsCrashArtifactUrl(url) ==
    url[1] = "https://cdn.crate.io/downloads/releases/crash_standalone_"

\* C1: with no --jdk-version and the database archive found, the resolved
\* Java version is 12.0.1 when the database major version is at least 4 and
\* 11.0.1 when it is below 4, whatever the minor, hotfix, client version and
\* template are; that version is also the one printed.
C1_DefaultJdk ==
    (Parsed /\ args.jdk_version = None) =>
        LET expected == IF args.cratedb_version.major >= 4 THEN Jdk1201 ELSE Jdk1101
        IN  /\ jdk_version # None => jdk_version = expected
            /\ stdout # None =>
                  stdout.JDK_VERSION =
                      (IF args.cratedb_version.major >= 4
                       THEN Chars("12.0.1") ELSE Chars("11.0.1"))

\* the boundary: database 4.x, no --jdk-version, archive found, 12.0.1 printed
C1_Witness ==
    /\ pc = "done"
    /\ args.jdk_version = None
    /\ args.cratedb_version.major = 4
    /\ probes[1].result = Return(TRUE)
    /\ stdout.JDK_VERSION = Chars("12.0.1")

\* C2: whenever the existence probe of the database archive reports false
\* (an error status, or a request that could not be sent), the run has
\* failed with 'No release found for CrateDB <version>' and nothing was
\* rendered or printed.
C2_AbsentArchiveFails ==
    \A i \in DOMAIN probes :
        (probes[i].url = CratedbUrl(args.cratedb_version)
            /\ probes[i].result = Return(FALSE)) =>
        /\ pc = "error"
        /\ error = Raise("ValueError",
                         <<"No release found for CrateDB ">>
                             \o VersionStr(args.cratedb_version))
        /\ stdout = None

\* the second probe of the archive (line 95) failed at transport level
C2_Witness ==
    /\ Len(probes) = 2
    /\ probes[1].result = Return(TRUE)
    /\ probes[2].outcome = "URLError"
    /\ probes[2].result = Return(FALSE)
    /\ pc = "error"

\* some resolution step that the run has executed has failed
StepFailed ==
    \/ /\ pc # "parse_args"
       /\ \E a \in {argv.cratedb, argv.crash, argv.jdk} : ArgValue(a).tag = "raise"
    \/ \E i \in DOMAIN probes : probes[i].outcome # "200"
    \/ JdkResolved /\ AsTuple(jdk_version) \notin {<<12, 0, 1>>, <<11, 0, 1>>}
    \/ \E i \in DOMAIN requests :
          /\ requests[i].method = "GET"
          /\ \/ requests[i].outcome.tag = "fail"
             \/ /\ requests[i].outcome.tag = "crash"
                /\ Parse(requests[i].outcome.text).tag = "raise"

\* C3: as soon as a resolution step has failed the run is in the error
\* outcome with nothing printed; text is printed only by a run that ended
\* normally with every step successful.
C3_NoOutputOnFailure ==
    /\ StepFailed => (pc = "error" /\ error # None /\ stdout = None)
    /\ stdout # None => (pc = "done" /\ error = None /\ ~StepFailed)
    /\ pc = "error" => stdout = None

\* the last step before render failed: the metadata names a malformed version
C3_Witness ==
    /\ pc = "error"
    /\ Len(requests) = 4
    /\ requests[4].outcome = [tag |-> "crash", text |-> Chars("0.24")]
    /\ stdout = None

\* C7: with no --crash-version the printed client version is the one parsed
\* from the metadata's 'crash' field and no HEAD request goes to a client
\* artifact URL; with a --crash-version (0.0.0 included) the metadata
\* endpoint is never requested, the version is bound only after its probe
\* reported true, and a probe that reported false ends the run with
\* 'No release found for crash <version>'.
C7_CrashResolution ==
    Parsed =>
        IF args.crash_version = None
        THEN /\ \A i \in DOMAIN requests :
                    requests[i].method = "HEAD" => ~IsCrashArtifactUrl(requests[i].url)
             /\ crash_binding # None =>
                    \E i \in DOMAIN requests :
                        /\ requests[i].url = VersionsJsonUrl
                        /\ requests[i].outcome.tag = "crash"
                        /\ crash_binding = Parse(requests[i].outcome.text)
             /\ stdout # None =>
                    \E i \in DOMAIN requests :
                        /\ requests[i].url = VersionsJsonUrl
                        /\ requests[i].outcome.tag = "crash"
                        /\ Parse(stdout.CRASH_VERSION) = Parse(requests[i].outcome.text)
        ELSE /\ \A i \in DOMAIN requests : requests[i].url # VersionsJsonUrl
             /\ crash_binding # None =>
                    /\ crash_binding = args.crash_version
                    /\ \E i \in DOMAIN probes :
                          /\ probes[i].url = CrashUrl(args.crash_version)
                          /\ probes[i].result = Return(TRUE)
             /\ \A i \in DOMAIN probes :
                    (probes[i].url = CrashUrl(args.crash_version)
                        /\ probes[i].result = Return(FALSE)) =>
                    /\ pc = "error"
                    /\ error = Raise("ValueError",
                                     <<"No release found for crash ">>
                                         \o VersionStr(args.crash_version))
             /\ stdout # None => stdout.CRASH_VERSION = VersionStr(args.crash_version)

\* --crash-version 0.0.0 was given, its artifact was found, and it was printed
C7_Witness ==
    /\ pc = "done"
    /\ args.crash_version = Version(0, 0, 0)
    /\ Len(probes) = 3
    /\ probes[3].result = Return(TRUE)
    /\ stdout.CRASH_VERSION = Chars("0.0.0")

\* C8: an explicit JDK version that is not a key of the table ends the run
\* with 'No URL for JDK version ...' before any checksum request and without
\* a default taking its place; for a key, the URL is the table's entry and
\* the checksum is the body fetched from that URL plus '.sha256'.
C8_JdkTable ==
    (Parsed /\ args.jdk_version # None /\ JdkResolved) =>
        /\ jdk_version = args.jdk_version
        /\ IF AsTuple(args.jdk_version) \notin {<<12, 0, 1>>, <<11, 0, 1>>}
           THEN /\ pc = "error"
                /\ error.type = "ValueError"
                /\ error.msg[1] = "No URL for JDK version "
                /\ \A i \in DOMAIN requests : requests[i].method # "GET"
                /\ jdk_url = None
                /\ jdk_sha256 = None
           ELSE LET entry == IF args.jdk_version = Jdk1201 THEN Jdk12Url ELSE Jdk11Url
                IN  /\ \E i \in DOMAIN requests :
                          /\ requests[i].method = "GET"
                          /\ requests[i].url = entry \o <<".sha256">>
                          /\ (jdk_url # None) <=> (requests[i].outcome.tag = "body")
                          /\ jdk_url # None =>
                                /\ jdk_url = PyStr(entry)
                                /\ jdk_sha256 = PyStr(requests[i].outcome.body)
                    /\ stdout # None =>
                          (stdout.JDK_URL = entry /\ stdout.JDK_SHA256 = jdk_sha256.chars)

\* --jdk-version 13.0.0 was given and the run ended at line 89
C8_Witness ==
    /\ pc = "error"
    /\ Parsed
    /\ args.jdk_version = Version(13, 0, 0)
    /\ jdk_version = Version(13, 0, 0)
    /\ error.type = "ValueError"
    /\ Len(requests) = 1

\* C4: the template handed to the loader is the --template value whenever
\* one was given; otherwise 'Dockerfile_{major}.{minor}.j2' exactly when a
\* file of that name exists in the directory the loader reads (the
\* script's directory); otherwise 'Dockerfile.j2'.
C4_TemplateChoice ==
    template # None =>
        template.chars =
            (IF args.template # None THEN args.template.chars
             ELSE IF VersionedTemplate(cratedb_version) \in fs.script
                  THEN VersionedTemplate(cratedb_version)
                  ELSE GenericTemplate)

\* C9: url_exists always returns, true exactly when the HEAD request
\* succeeded and false for every failure of the request.
C9_ProbeNeverRaises ==
    \A i \in DOMAIN probes :
        /\ probes[i].result.tag = "return"
        /\ probes[i].result.val <=> (probes[i].outcome = "200")

\* C10: once the template has been selected no further network request is
\* issued; all resolution is over before selection.
C10_ResolveBeforeSelect ==
    [][template # None => requests' = requests]_vars

-----------------------------------------------------------------------------
(* Claims about Version                                                    *)

\* every '.'-separated component of s
Components(s) == Split(s, ".", Len(s))

\* the decimal numeral of a non-negative integer, as str() writes it
PlainNumeral(c) ==
    /\ c # <<>>
    /\ \A i \in 1..Len(c) : c[i] \in Digits
    /\ Len(c) > 1 => c[1] # "0"

\* the numeral of an integer as str() writes it: '-' only before a
\* non-zero plain numeral
CanonicalNumeral(c) ==
    \/ PlainNumeral(c)
    \/ c # <<>> /\ c[1] = "-" /\ PlainNumeral(Tail(c)) /\ Tail(c) # <<"0">>

CanonicalVersionText(s) ==
    /\ Len(Components(s)) = 3
    /\ \A i \in 1..3 : CanonicalNumeral(Components(s)[i])

\* C5 as stated: str(Version.parse(s)) is s for every accepted s, and
\* Version.parse(str(v)) is v for every v with non-negative components.
C5_RoundTrip ==
    /\ pc = "parsed_and_shown" => pout = pstr
    /\ pc = "shown_and_parsed" => pres = pver

\* C5 amended: str(Version.parse(s)) is s exactly for the accepted s whose
\* three components are written as str() writes integers; every such s is
\* accepted; and Version.parse(str(v)) is v for every v with non-negative
\* components.
C5_RoundTripCanonical ==
    /\ pc = "parsed_and_shown" => (pout = pstr <=> CanonicalVersionText(pstr))
    /\ pc = "parse_failed" => ~CanonicalVersionText(pstr)
    /\ pc = "shown_and_parsed" => pres = pver

\* a canonical string with a two-digit component went through parse and str
C5_Witness ==
    /\ pc = "parsed_and_shown"
    /\ pstr = <<"1", "0", ".", "0", ".", "1">>
    /\ pout = pstr

\* C6: Version.parse fails for every string that does not have exactly
\* three '.'-separated components and for every string with a component
\* that is not an integer, and returns a Version only for three integer
\* components that are all non-negative.
C6_ParseRejects ==
    pc \in {"parsed", "parse_failed"} =>
        LET cs == Components(pstr)
        IN  /\ Len(cs) # 3 => pres.tag = "raise"
            /\ (\E i \in 1..Len(cs) : ~IntOk(cs[i])) => pres.tag = "raise"
            /\ pres.tag = "Version" =>
                  /\ Len(cs) = 3
                  /\ \A i \in 1..3 : IntOk(cs[i])
                  /\ pres.major >= 0 /\ pres.minor >= 0 /\ pres.hotfix >= 0

====
